---- MODULE Spec2Model ----
(***************************************************************************)
(* Model of the FOTA redirect server (server.py): the IMEI whitelist that  *)
(* load_whitelist refreshes on a self-rescheduling timer, and the request  *)
(* handler that answers 403 / 401 / 302 against the current whitelist.     *)
(*                                                                         *)
(* Strings of the program that are inspected character by character (the   *)
(* request path, object names) are sequences of one-character strings.     *)
(* Device identifiers are opaque values, modelled as 1..NumImeis.          *)
(* The S3 client and the HTTP fetch are the environment: each of their     *)
(* calls either returns or raises, chosen nondeterministically.            *)
(***************************************************************************)
EXTENDS Integers, Sequences, FiniteSets, TLC

VARIABLES
    mainpc,          \* position of the __main__ block
    imei_whitelist,  \* Server.imei_whitelist
    refresh_pc,      \* position of the load_whitelist task
    resp_status,     \* status of the response load_whitelist is reading
    timer,           \* ticks left before the call_later callback is due
    attempt_before,  \* history: imei_whitelist when the running attempt began
    lastAttempt,     \* <<>> or <<the attempt the latest step finished>>
    good,            \* history: <<>> or <<identifiers of the last document parsed in full>>
    last,            \* <<>> or <<the request the latest step handled>>
    callbacks,       \* number of call_later callbacks registered and not yet run
    first_done,      \* history: the first load_whitelist attempt has finished
    issued           \* <<>> or <<a make_object_url call and its result>>

vars == <<mainpc, imei_whitelist, refresh_pc, resp_status, timer,
          attempt_before, lastAttempt, good, last, callbacks, first_done,
          issued>>

----------------------------------------------------------------------------
(* Bounds of the model *)

NumImeis == 2
MaxPathLen == 2
MaxQueryLen == 1
MaxDocLen == 2

(* Configuration *)

bucket_name == "bucket"
whitelist_object_name == <<"w">>
expiry_time == 86400
\* WHITELIST_REFRESH, counted in timer ticks
whitelist_refresh_period == 2

----------------------------------------------------------------------------
(* Input domains *)

SeqsUpTo(S, n) == UNION {[1..k -> S] : k \in 0..n}

Imeis == 1..NumImeis
PathChars == {"/", "w"}
\* the router pattern '/{path:.*}': every path starts with a separator
Paths == {<<"/">> \o s : s \in SeqsUpTo(PathChars, MaxPathLen)}
\* a query string is a multidict: an ordered list of (name, value) pairs
QueryPairs == {<<"imei", i>> : i \in Imeis} \cup {<<"v", 1>>}
Queries == SeqsUpTo(QueryPairs, MaxQueryLen)
Methods == {"GET", "HEAD", "POST"}

\* entries of the whitelist document, with and without the 'imei' field
Entries == {[imei |-> i, model |-> "m"] : i \in Imeis} \cup {[model |-> "m"]}
Documents == SeqsUpTo(Entries, MaxDocLen)
\* response bodies: not JSON, JSON without the 'whitelist' key, a document
Bodies == {[wellformed |-> FALSE, data |-> [version |-> 1]],
           [wellformed |-> TRUE, data |-> [version |-> 1]]}
          \cup {[wellformed |-> TRUE, data |-> [whitelist |-> d]] : d \in Documents}
Statuses == {200, 500}

\* arguments of make_object_url called on its own
SignMethods == {"GET", "HEAD", "PUT", "POST", "DELETE", "get"}
SignBuckets == {"bucket", "other"}
SignKeys == SeqsUpTo(PathChars, MaxPathLen)
SignExpiries == {30, 86400}
SignKwargs == {[n \in {} |-> 0], [ContentLength |-> 1], [Bucket |-> "other"],
               [Key |-> <<"w">>], [Key |-> <<"w">>, ContentLength |-> 1]}

----------------------------------------------------------------------------
(* make_object_url *)

NoKwargs == [n \in {} |-> 0]

\* dict.update: the entries of kwargs override those of args
dict_update(args, kwargs) ==
    [n \in (DOMAIN args) \cup (DOMAIN kwargs) |->
        IF n \in DOMAIN kwargs THEN kwargs[n] ELSE args[n]]

\* variant: every method that is not GET or HEAD is taken for a write
make_object_url_else_put(bucket, object_name, request_method, expires_in, api_kwargs, s3ok) ==
    LET api_method == IF request_method \in {"GET", "HEAD"}
                      THEN "get_object" ELSE "put_object"
        api_args == dict_update([Bucket |-> bucket, Key |-> object_name],
                                api_kwargs)
    IN IF s3ok
       THEN [ok |-> TRUE, error |-> "", s3calls |-> 1,
             url |-> <<[api_method |-> api_method, api_args |-> api_args,
                        ExpiresIn |-> expires_in,
                        HttpMethod |-> request_method]>>]
       ELSE [ok |-> FALSE, error |-> "S3Error", s3calls |-> 1, url |-> <<>>]

\* s3ok: whether boto3's generate_presigned_url returns (TRUE) or raises
make_object_url(bucket, object_name, request_method, expires_in, api_kwargs, s3ok) ==
    IF request_method \notin {"GET", "HEAD", "PUT", "POST"}
    THEN [ok |-> FALSE, error |-> "ValueError", s3calls |-> 0, url |-> <<>>]
    ELSE LET api_method == IF request_method \in {"GET", "HEAD"}
                           THEN "get_object" ELSE "put_object"
             api_args == dict_update([Bucket |-> bucket, Key |-> object_name],
                                     api_kwargs)
         IN IF s3ok
            THEN [ok |-> TRUE, error |-> "", s3calls |-> 1,
                  url |-> <<[api_method |-> api_method, api_args |-> api_args,
                             ExpiresIn |-> expires_in,
                             HttpMethod |-> request_method]>>]
            ELSE [ok |-> FALSE, error |-> "S3Error", s3calls |-> 1, url |-> <<>>]

----------------------------------------------------------------------------
(* handle_request *)

\* 'name' in request.GET
has_key(GET, name) == \E i \in DOMAIN GET : GET[i][1] = name

\* request.GET[name]: the first value stored under the name
getitem(GET, name) ==
    LET first == CHOOSE i \in DOMAIN GET :
                    /\ GET[i][1] = name
                    /\ \A j \in DOMAIN GET : GET[j][1] = name => i <= j
    IN GET[first][2]

\* variant: only one leading separator is dropped (path[1:])
lstrip_one(s) == IF s # <<>> /\ Head(s) = "/" THEN Tail(s) ELSE s

\* str.lstrip('/'): drops every leading separator
RECURSIVE lstrip(_)
lstrip(s) == IF s # <<>> /\ Head(s) = "/" THEN lstrip(Tail(s)) ELSE s

Response(status, text) == [status |-> status, text |-> text, location |-> <<>>]
HTTPFound(url) == [status |-> 302, text |-> "302: Found", location |-> url]

LogRequest(request) ==
    [level |-> "info", status |-> 0, method |-> request.method,
     path_qs |-> <<request.path, request.GET>>, url |-> <<>>]
LogStatus(status, request, url) ==
    [level |-> "info", status |-> status, method |-> request.method,
     path_qs |-> <<request.path, request.GET>>, url |-> url]

Returns(response, calls, log) ==
    [raised |-> "", response |-> <<response>>, calls |-> calls, log |-> log]
Raises(exception, calls, log) ==
    [raised |-> exception, response |-> <<>>, calls |-> calls, log |-> log]

SignCall(bucket, object_name, request_method, expires_in, api_kwargs) ==
    [bucket |-> bucket, object_name |-> object_name,
     request_method |-> request_method, expires_in |-> expires_in,
     api_kwargs |-> api_kwargs]

\* variant: presence and membership merged into one test (GET.get('imei')
\* not in whitelist), so a missing identifier is answered 401
handle_request_merged_check(self_imei_whitelist, request, s3ok) ==
    IF \/ ~ has_key(request.GET, "imei")
       \/ getitem(request.GET, "imei") \notin self_imei_whitelist
    THEN Returns(Response(401, "Unauthorized"), <<>>,
                 <<LogRequest(request), LogStatus(401, request, <<>>)>>)
    ELSE LET object_name == lstrip(request.path) IN
    IF object_name = whitelist_object_name
    THEN Returns(Response(403, "Forbidden"), <<>>, <<LogRequest(request)>>)
    ELSE IF request.method \notin {"GET", "HEAD"}
    THEN Raises("AssertionError", <<>>, <<LogRequest(request)>>)
    ELSE LET signed == make_object_url(bucket_name, object_name, request.method,
                                       expiry_time, NoKwargs, s3ok)
             calls == <<SignCall(bucket_name, object_name, request.method,
                                 expiry_time, NoKwargs)>>
         IN IF signed.ok
            THEN Returns(HTTPFound(signed.url), calls,
                         <<LogRequest(request),
                           LogStatus(302, request, signed.url)>>)
            ELSE Raises(signed.error, calls, <<LogRequest(request)>>)

\* variant: the whitelist-object test is made before the membership test
handle_request_path_first(self_imei_whitelist, request, s3ok) ==
    IF ~ has_key(request.GET, "imei")
    THEN Returns(Response(403, "Forbidden"), <<>>,
                 <<LogRequest(request), LogStatus(403, request, <<>>)>>)
    ELSE LET object_name == lstrip(request.path) IN
    IF object_name = whitelist_object_name
    THEN Returns(Response(403, "Forbidden"), <<>>, <<LogRequest(request)>>)
    ELSE IF getitem(request.GET, "imei") \notin self_imei_whitelist
    THEN Returns(Response(401, "Unauthorized"), <<>>,
                 <<LogRequest(request), LogStatus(401, request, <<>>)>>)
    ELSE IF request.method \notin {"GET", "HEAD"}
    THEN Raises("AssertionError", <<>>, <<LogRequest(request)>>)
    ELSE LET signed == make_object_url(bucket_name, object_name, request.method,
                                       expiry_time, NoKwargs, s3ok)
             calls == <<SignCall(bucket_name, object_name, request.method,
                                 expiry_time, NoKwargs)>>
         IN IF signed.ok
            THEN Returns(HTTPFound(signed.url), calls,
                         <<LogRequest(request),
                           LogStatus(302, request, signed.url)>>)
            ELSE Raises(signed.error, calls, <<LogRequest(request)>>)

\* variant: the unstripped request.path is compared with the whitelist name
handle_request_raw_path(self_imei_whitelist, request, s3ok) ==
    IF ~ has_key(request.GET, "imei")
    THEN Returns(Response(403, "Forbidden"), <<>>,
                 <<LogRequest(request), LogStatus(403, request, <<>>)>>)
    ELSE IF getitem(request.GET, "imei") \notin self_imei_whitelist
    THEN Returns(Response(401, "Unauthorized"), <<>>,
                 <<LogRequest(request), LogStatus(401, request, <<>>)>>)
    ELSE LET object_name == lstrip(request.path) IN
    IF request.path = whitelist_object_name
    THEN Returns(Response(403, "Forbidden"), <<>>, <<LogRequest(request)>>)
    ELSE IF request.method \notin {"GET", "HEAD"}
    THEN Raises("AssertionError", <<>>, <<LogRequest(request)>>)
    ELSE LET signed == make_object_url(bucket_name, object_name, request.method,
                                       expiry_time, NoKwargs, s3ok)
             calls == <<SignCall(bucket_name, object_name, request.method,
                                 expiry_time, NoKwargs)>>
         IN IF signed.ok
            THEN Returns(HTTPFound(signed.url), calls,
                         <<LogRequest(request),
                           LogStatus(302, request, signed.url)>>)
            ELSE Raises(signed.error, calls, <<LogRequest(request)>>)

\* variant: the URL is always signed for GET, whatever the request's method
handle_request_always_get(self_imei_whitelist, request, s3ok) ==
    IF ~ has_key(request.GET, "imei")
    THEN Returns(Response(403, "Forbidden"), <<>>,
                 <<LogRequest(request), LogStatus(403, request, <<>>)>>)
    ELSE IF getitem(request.GET, "imei") \notin self_imei_whitelist
    THEN Returns(Response(401, "Unauthorized"), <<>>,
                 <<LogRequest(request), LogStatus(401, request, <<>>)>>)
    ELSE LET object_name == lstrip(request.path) IN
    IF object_name = whitelist_object_name
    THEN Returns(Response(403, "Forbidden"), <<>>, <<LogRequest(request)>>)
    ELSE IF request.method \notin {"GET", "HEAD"}
    THEN Raises("AssertionError", <<>>, <<LogRequest(request)>>)
    ELSE LET signed == make_object_url(bucket_name, object_name, "GET",
                                       expiry_time, NoKwargs, s3ok)
             calls == <<SignCall(bucket_name, object_name, "GET",
                                 expiry_time, NoKwargs)>>
         IN IF signed.ok
            THEN Returns(HTTPFound(signed.url), calls,
                         <<LogRequest(request),
                           LogStatus(302, request, signed.url)>>)
            ELSE Raises(signed.error, calls, <<LogRequest(request)>>)

\* variant: an empty whitelist is taken for "no whitelist configured"
handle_request_fail_open(self_imei_whitelist, request, s3ok) ==
    IF ~ has_key(request.GET, "imei")
    THEN Returns(Response(403, "Forbidden"), <<>>,
                 <<LogRequest(request), LogStatus(403, request, <<>>)>>)
    ELSE IF /\ self_imei_whitelist # {}
            /\ getitem(request.GET, "imei") \notin self_imei_whitelist
    THEN Returns(Response(401, "Unauthorized"), <<>>,
                 <<LogRequest(request), LogStatus(401, request, <<>>)>>)
    ELSE LET object_name == lstrip(request.path) IN
    IF object_name = whitelist_object_name
    THEN Returns(Response(403, "Forbidden"), <<>>, <<LogRequest(request)>>)
    ELSE IF request.method \notin {"GET", "HEAD"}
    THEN Raises("AssertionError", <<>>, <<LogRequest(request)>>)
    ELSE LET signed == make_object_url(bucket_name, object_name, request.method,
                                       expiry_time, NoKwargs, s3ok)
             calls == <<SignCall(bucket_name, object_name, request.method,
                                 expiry_time, NoKwargs)>>
         IN IF signed.ok
            THEN Returns(HTTPFound(signed.url), calls,
                         <<LogRequest(request),
                           LogStatus(302, request, signed.url)>>)
            ELSE Raises(signed.error, calls, <<LogRequest(request)>>)

\* variant: the URL is signed for request.path[1:], the comparison is made
\* on the stripped name
handle_request_two_keys(self_imei_whitelist, request, s3ok) ==
    IF ~ has_key(request.GET, "imei")
    THEN Returns(Response(403, "Forbidden"), <<>>,
                 <<LogRequest(request), LogStatus(403, request, <<>>)>>)
    ELSE IF getitem(request.GET, "imei") \notin self_imei_whitelist
    THEN Returns(Response(401, "Unauthorized"), <<>>,
                 <<LogRequest(request), LogStatus(401, request, <<>>)>>)
    ELSE LET object_name == lstrip(request.path) IN
    IF object_name = whitelist_object_name
    THEN Returns(Response(403, "Forbidden"), <<>>, <<LogRequest(request)>>)
    ELSE IF request.method \notin {"GET", "HEAD"}
    THEN Raises("AssertionError", <<>>, <<LogRequest(request)>>)
    ELSE LET signed == make_object_url(bucket_name, Tail(request.path),
                                       request.method, expiry_time, NoKwargs,
                                       s3ok)
             calls == <<SignCall(bucket_name, Tail(request.path),
                                 request.method, expiry_time, NoKwargs)>>
         IN IF signed.ok
            THEN Returns(HTTPFound(signed.url), calls,
                         <<LogRequest(request),
                           LogStatus(302, request, signed.url)>>)
            ELSE Raises(signed.error, calls, <<LogRequest(request)>>)

\* variant: a signing failure is caught and answered 403
handle_request_catches(self_imei_whitelist, request, s3ok) ==
    IF ~ has_key(request.GET, "imei")
    THEN Returns(Response(403, "Forbidden"), <<>>,
                 <<LogRequest(request), LogStatus(403, request, <<>>)>>)
    ELSE IF getitem(request.GET, "imei") \notin self_imei_whitelist
    THEN Returns(Response(401, "Unauthorized"), <<>>,
                 <<LogRequest(request), LogStatus(401, request, <<>>)>>)
    ELSE LET object_name == lstrip(request.path) IN
    IF object_name = whitelist_object_name
    THEN Returns(Response(403, "Forbidden"), <<>>, <<LogRequest(request)>>)
    ELSE IF request.method \notin {"GET", "HEAD"}
    THEN Raises("AssertionError", <<>>, <<LogRequest(request)>>)
    ELSE LET signed == make_object_url(bucket_name, object_name, request.method,
                                       expiry_time, NoKwargs, s3ok)
             calls == <<SignCall(bucket_name, object_name, request.method,
                                 expiry_time, NoKwargs)>>
         IN IF signed.ok
            THEN Returns(HTTPFound(signed.url), calls,
                         <<LogRequest(request),
                           LogStatus(302, request, signed.url)>>)
            ELSE Returns(Response(403, "Forbidden"), calls,
                         <<LogRequest(request)>>)

\* the handler has no suspension point: it runs as one step against the
\* whitelist it is given.  calls: the make_object_url calls it made.
handle_request(self_imei_whitelist, request, s3ok) ==
    IF ~ has_key(request.GET, "imei")
    THEN Returns(Response(403, "Forbidden"), <<>>,
                 <<LogRequest(request), LogStatus(403, request, <<>>)>>)
    ELSE IF getitem(request.GET, "imei") \notin self_imei_whitelist
    THEN Returns(Response(401, "Unauthorized"), <<>>,
                 <<LogRequest(request), LogStatus(401, request, <<>>)>>)
    ELSE LET object_name == lstrip(request.path) IN
    IF object_name = whitelist_object_name
    THEN Returns(Response(403, "Forbidden"), <<>>, <<LogRequest(request)>>)
    ELSE IF request.method \notin {"GET", "HEAD"}
    THEN Raises("AssertionError", <<>>, <<LogRequest(request)>>)
    ELSE LET signed == make_object_url(bucket_name, object_name, request.method,
                                       expiry_time, NoKwargs, s3ok)
             calls == <<SignCall(bucket_name, object_name, request.method,
                                 expiry_time, NoKwargs)>>
         IN IF signed.ok
            THEN Returns(HTTPFound(signed.url), calls,
                         <<LogRequest(request),
                           LogStatus(302, request, signed.url)>>)
            ELSE Raises(signed.error, calls, <<LogRequest(request)>>)

\* variant: the identifier is removed from the set once it has been used
handle_request_discards(self_imei_whitelist, request) ==
    IF has_key(request.GET, "imei")
    THEN self_imei_whitelist \ {getitem(request.GET, "imei")}
    ELSE self_imei_whitelist

\* self.imei_whitelist after handle_request: the handler only reads it
\* (line 113), on every path it takes
handle_request_writes(self_imei_whitelist, request) == self_imei_whitelist

\* variant: a third route, for POST
RoutedMethods_post == {"GET", "HEAD", "POST"}

\* make_app: the two routes registered, both on '/{path:.*}'
RoutedMethods == {"GET", "HEAD"}

\* the requests the router hands to handle_request
Requests == [method : RoutedMethods, path : Paths, GET : Queries]

\* what the web framework does around the handler: the handler's response is
\* sent, an exception escaping the handler is answered 500
dispatch(self_imei_whitelist, request, s3ok) ==
    LET r == handle_request(self_imei_whitelist, request, s3ok) IN
    [raised |-> r.raised,
     response |-> IF r.raised = "" THEN r.response[1]
                  ELSE Response(500, "Internal Server Error"),
     calls |-> r.calls, log |-> r.log]

----------------------------------------------------------------------------
(* load_whitelist *)

\* variant: a fresh set is assigned first and filled entry by entry, so the
\* entries before a malformed one stay
load_whitelist_parse_incremental(self_imei_whitelist, body) ==
    IF ~ body.wellformed
    THEN [why |-> "json", imei_whitelist |-> self_imei_whitelist]
    ELSE IF "whitelist" \notin DOMAIN body.data
    THEN [why |-> "KeyError_whitelist", imei_whitelist |-> self_imei_whitelist]
    ELSE LET whitelist == body.data.whitelist IN
    IF \E i \in DOMAIN whitelist : "imei" \notin DOMAIN whitelist[i]
    THEN [why |-> "KeyError_imei",
          imei_whitelist |->
              {whitelist[i].imei : i \in
                  {k \in DOMAIN whitelist :
                      \A j \in 1..k : "imei" \in DOMAIN whitelist[j]}}]
    ELSE [why |-> "ok",
          imei_whitelist |-> {whitelist[i].imei : i \in DOMAIN whitelist}]

\* variant: self.imei_whitelist.update(...) instead of an assignment
load_whitelist_parse_update(self_imei_whitelist, body) ==
    IF ~ body.wellformed
    THEN [why |-> "json", imei_whitelist |-> self_imei_whitelist]
    ELSE IF "whitelist" \notin DOMAIN body.data
    THEN [why |-> "KeyError_whitelist", imei_whitelist |-> self_imei_whitelist]
    ELSE LET whitelist == body.data.whitelist IN
    IF \E i \in DOMAIN whitelist : "imei" \notin DOMAIN whitelist[i]
    THEN [why |-> "KeyError_imei", imei_whitelist |-> self_imei_whitelist]
    ELSE [why |-> "ok",
          imei_whitelist |-> self_imei_whitelist \cup
                             {whitelist[i].imei : i \in DOMAIN whitelist}]

\* variant: the entries are added one by one to the set the handlers read
load_whitelist_parse_in_place(self_imei_whitelist, body) ==
    IF ~ body.wellformed
    THEN [why |-> "json", imei_whitelist |-> self_imei_whitelist]
    ELSE IF "whitelist" \notin DOMAIN body.data
    THEN [why |-> "KeyError_whitelist", imei_whitelist |-> self_imei_whitelist]
    ELSE LET whitelist == body.data.whitelist IN
    IF \E i \in DOMAIN whitelist : "imei" \notin DOMAIN whitelist[i]
    THEN [why |-> "KeyError_imei",
          imei_whitelist |-> self_imei_whitelist \cup
              {whitelist[i].imei : i \in
                  {k \in DOMAIN whitelist :
                      \A j \in 1..k : "imei" \in DOMAIN whitelist[j]}}]
    ELSE [why |-> "ok",
          imei_whitelist |-> self_imei_whitelist \cup
                             {whitelist[i].imei : i \in DOMAIN whitelist}]

\* lines 83-84 on a body that has been read: resp.json(), data['whitelist'],
\* w['imei'] for each entry, and the assignment of the finished set.  The set
\* is built by the generator before the assignment, so an exception raised on
\* the way leaves self.imei_whitelist as it was.
load_whitelist_parse(self_imei_whitelist, body) ==
    IF ~ body.wellformed
    THEN [why |-> "json", imei_whitelist |-> self_imei_whitelist]
    ELSE IF "whitelist" \notin DOMAIN body.data
    THEN [why |-> "KeyError_whitelist", imei_whitelist |-> self_imei_whitelist]
    ELSE LET whitelist == body.data.whitelist IN
    IF \E i \in DOMAIN whitelist : "imei" \notin DOMAIN whitelist[i]
    THEN [why |-> "KeyError_imei", imei_whitelist |-> self_imei_whitelist]
    ELSE [why |-> "ok",
          imei_whitelist |-> {whitelist[i].imei : i \in DOMAIN whitelist}]

\* variant: the next attempt is scheduled in an else clause, after success only
load_whitelist_else(why) ==
    IF why = "ok"
    THEN [refresh_pc |-> "scheduled", timer |-> whitelist_refresh_period,
          callbacks |-> 1]
    ELSE [refresh_pc |-> "idle", timer |-> 0, callbacks |-> 0]

\* variant: call_later both in the except clause and in the finally clause
load_whitelist_twice(why) ==
    [refresh_pc |-> "scheduled", timer |-> whitelist_refresh_period,
     callbacks |-> IF why = "ok" THEN 1 ELSE 2]

\* the finally clause: one loop.call_later(whitelist_refresh_period, ...),
\* run whatever the outcome of the attempt
load_whitelist_finally(why) ==
    [refresh_pc |-> "scheduled", timer |-> whitelist_refresh_period,
     callbacks |-> 1]

\* history record of a finished attempt
Attempt(why, status, body, before) ==
    [why |-> why, status |-> status, body |-> body, before |-> before]

\* identifiers of a document, entry by entry
ImeisOf(document) ==
    {id \in Imeis : \E i \in DOMAIN document :
                        "imei" \in DOMAIN document[i] /\ document[i].imei = id}

\* the attempt ends: the finally clause runs and the task finishes; if
\* __main__ was waiting on it (run_until_complete), __main__ goes on
Finish(why, status, body, new_whitelist) ==
    LET fin == load_whitelist_finally(why) IN
    /\ imei_whitelist' = new_whitelist
    /\ refresh_pc' = fin.refresh_pc
    /\ timer' = fin.timer
    /\ resp_status' = 0
    /\ lastAttempt' = <<Attempt(why, status, body, attempt_before)>>
    /\ good' = IF why = "ok" THEN <<ImeisOf(body[1].data.whitelist)>> ELSE good
    /\ mainpc' = IF mainpc = "loading" THEN "loaded" ELSE mainpc
    /\ last' = <<>>
    /\ callbacks' = callbacks + fin.callbacks
    /\ first_done' = TRUE
    /\ UNCHANGED <<attempt_before, issued>>

\* the coroutine runs up to its first await: make_object_url for the
\* whitelist object (30 seconds, GET), then aiohttp.get(url) suspends; when
\* make_object_url raises, the attempt ends at once
\* consumed: 1 when the task is created by a call_later callback, 0 when it
\* is the coroutine __main__ runs
Begin(s3ok, main_if_suspended, main_if_finished, consumed) ==
    LET signed == make_object_url(bucket_name, whitelist_object_name, "GET", 30,
                                  NoKwargs, s3ok)
        fin == load_whitelist_finally(signed.error)
    IN /\ attempt_before' = imei_whitelist
       /\ refresh_pc' = IF signed.ok THEN "fetching" ELSE fin.refresh_pc
       /\ timer' = IF signed.ok THEN 0 ELSE fin.timer
       /\ lastAttempt' = IF signed.ok THEN <<>>
                         ELSE <<Attempt(signed.error, 0, <<>>, imei_whitelist)>>
       /\ mainpc' = IF signed.ok THEN main_if_suspended ELSE main_if_finished
       /\ last' = <<>>
       /\ callbacks' = IF signed.ok THEN callbacks - consumed
                       ELSE callbacks - consumed + fin.callbacks
       /\ first_done' = (first_done \/ ~ signed.ok)
       /\ UNCHANGED <<imei_whitelist, resp_status, good, issued>>

----------------------------------------------------------------------------
(* Actions *)

\* variant: loop.create_task(s.load_whitelist()), which __main__ does not
\* wait for
MainLoadWhitelist_create_task ==
    /\ mainpc = "start"
    /\ \E s3ok \in BOOLEAN : Begin(s3ok, "loaded", "loaded", 0)

\* __main__: loop.run_until_complete(s.load_whitelist())
MainLoadWhitelist ==
    /\ mainpc = "start"
    /\ \E s3ok \in BOOLEAN : Begin(s3ok, "loading", "loaded", 0)

\* __main__: make_app, make_handler, then run_until_complete(create_server):
\* the loop runs again, the listener is not bound yet
MainCreateServer ==
    /\ mainpc = "loaded"
    /\ mainpc' = "creating_server"
    /\ last' = <<>>
    /\ lastAttempt' = <<>>
    /\ UNCHANGED <<imei_whitelist, refresh_pc, resp_status, timer,
                   attempt_before, good, callbacks, first_done, issued>>

\* create_server returns; __main__ enters loop.run_forever()
MainServe ==
    /\ mainpc = "creating_server"
    /\ mainpc' = "serving"
    /\ last' = <<>>
    /\ lastAttempt' = <<>>
    /\ UNCHANGED <<imei_whitelist, refresh_pc, resp_status, timer,
                   attempt_before, good, callbacks, first_done, issued>>

\* time passes while the call_later callback is pending
Tick ==
    /\ refresh_pc = "scheduled"
    /\ timer > 0
    /\ timer' = timer - 1
    /\ last' = <<>>
    /\ lastAttempt' = <<>>
    /\ UNCHANGED <<mainpc, imei_whitelist, refresh_pc, resp_status,
                   attempt_before, good, callbacks, first_done, issued>>

\* the running loop calls the due callback: create_task(load_whitelist())
TimerFire ==
    /\ refresh_pc = "scheduled"
    /\ timer = 0
    /\ callbacks > 0
    /\ mainpc \in {"creating_server", "serving"}
    /\ \E s3ok \in BOOLEAN : Begin(s3ok, mainpc, mainpc, 1)

\* resp = await aiohttp.get(url) returns a response, of any status
FetchReturns ==
    /\ refresh_pc = "fetching"
    /\ \E status \in Statuses : resp_status' = status
    /\ refresh_pc' = "reading_json"
    /\ last' = <<>>
    /\ lastAttempt' = <<>>
    /\ UNCHANGED <<mainpc, imei_whitelist, timer, attempt_before, good,
                   callbacks, first_done, issued>>

\* await aiohttp.get(url) raises (connection error)
FetchRaises ==
    /\ refresh_pc = "fetching"
    /\ Finish("ClientError", 0, <<>>, imei_whitelist)

\* data = await resp.json() reads the body, then lines 84-85 run
JsonReturns ==
    /\ refresh_pc = "reading_json"
    /\ \E body \in Bodies :
          LET parsed == load_whitelist_parse(imei_whitelist, body) IN
          Finish(parsed.why, resp_status, <<body>>, parsed.imei_whitelist)

\* await resp.json() raises while the body is read (connection lost)
JsonRaises ==
    /\ refresh_pc = "reading_json"
    /\ Finish("ClientError", resp_status, <<>>, imei_whitelist)

\* the outcome of the S3 call is an input of the step only when the handler
\* gets as far as make_object_url
S3Outcomes(self_imei_whitelist, request) ==
    IF dispatch(self_imei_whitelist, request, TRUE).calls = <<>>
    THEN {TRUE} ELSE BOOLEAN

\* a request arrives on the listener and is dispatched
HandleRequest ==
    /\ mainpc = "serving"
    /\ \E request \in Requests :
       \E s3ok \in S3Outcomes(imei_whitelist, request) :
          LET d == dispatch(imei_whitelist, request, s3ok) IN
          /\ last' = <<[request |-> request, seen |-> imei_whitelist,
                     good |-> good, handled |-> TRUE, s3ok |-> s3ok,
                     raised |-> d.raised, response |-> d.response,
                     calls |-> d.calls, log |-> d.log]>>
          /\ imei_whitelist' = handle_request_writes(imei_whitelist, request)
    /\ lastAttempt' = <<>>
    /\ UNCHANGED <<mainpc, refresh_pc, resp_status, timer,
                   attempt_before, good, callbacks, first_done, issued>>

\* a request with a method that has no route: the router answers 405 and
\* handle_request is not called
RouterRejects ==
    /\ mainpc = "serving"
    /\ \E method \in Methods \ RoutedMethods :
          last' = <<[request |-> [method |-> method], seen |-> {},
                     good |-> good, handled |-> FALSE, s3ok |-> TRUE,
                     raised |-> "",
                     response |-> Response(405, "Method Not Allowed"),
                     calls |-> <<>>, log |-> <<>>]>>
    /\ lastAttempt' = <<>>
    /\ UNCHANGED <<mainpc, imei_whitelist, refresh_pc, resp_status, timer,
                   attempt_before, good, callbacks, first_done, issued>>

Init ==
    /\ mainpc = "start"
    /\ imei_whitelist = {}
    /\ refresh_pc = "idle"
    /\ resp_status = 0
    /\ timer = 0
    /\ attempt_before = {}
    /\ lastAttempt = <<>>
    /\ good = <<>>
    /\ last = <<>>
    /\ callbacks = 0
    /\ first_done = FALSE
    /\ issued = <<>>

Next ==
    \/ MainLoadWhitelist
    \/ MainCreateServer
    \/ MainServe
    \/ Tick
    \/ TimerFire
    \/ FetchReturns
    \/ FetchRaises
    \/ JsonReturns
    \/ JsonRaises
    \/ HandleRequest
    \/ RouterRejects

Spec == Init /\ [][Next]_vars

\* make_object_url called on its own, with any arguments
Issue ==
    /\ \E bucket \in SignBuckets, object_name \in SignKeys,
          request_method \in SignMethods, expires_in \in SignExpiries,
          api_kwargs \in SignKwargs, s3ok \in BOOLEAN :
          issued' = <<[call |-> SignCall(bucket, object_name, request_method,
                                         expires_in, api_kwargs),
                       result |-> make_object_url(bucket, object_name,
                                                  request_method, expires_in,
                                                  api_kwargs, s3ok)]>>
    /\ UNCHANGED <<mainpc, imei_whitelist, refresh_pc, resp_status, timer,
                   attempt_before, lastAttempt, good, last, callbacks,
                   first_done>>

SignNext == Issue

SignSpec == Init /\ [][SignNext]_vars

\* the event loop runs every ready callback and task, the environment
\* completes every fetch, and time passes
FairSpec ==
    /\ Spec
    /\ WF_vars(MainLoadWhitelist) /\ WF_vars(MainCreateServer)
    /\ WF_vars(MainServe) /\ WF_vars(Tick) /\ WF_vars(TimerFire)
    /\ WF_vars(FetchReturns \/ FetchRaises)
    /\ WF_vars(JsonReturns \/ JsonRaises)

TypeOK ==
    /\ mainpc \in {"start", "loading", "loaded", "creating_server", "serving"}
    /\ imei_whitelist \in SUBSET Imeis
    /\ refresh_pc \in {"idle", "fetching", "reading_json", "scheduled"}
    /\ resp_status \in Statuses \cup {0}
    /\ timer \in 0..whitelist_refresh_period
    /\ Len(last) <= 1 /\ Len(lastAttempt) <= 1 /\ Len(good) <= 1
    /\ callbacks \in 0..1
    /\ first_done \in BOOLEAN
    /\ Len(issued) <= 1

----------------------------------------------------------------------------
(* Vocabulary of the properties, stated on the request and response alone *)

\* the latest step handed a request to handle_request
Handled == last # <<>> /\ last[1].handled

NoImeiParam(request) == \A i \in DOMAIN request.GET : request.GET[i][1] # "imei"

\* the identifiers a request presents: the value of its first 'imei' pair
PresentedImei(request) ==
    {request.GET[i][2] : i \in
        {k \in DOMAIN request.GET :
            /\ request.GET[k][1] = "imei"
            /\ \A j \in 1..(k - 1) : request.GET[j][1] # "imei"}}

\* the path without its leading separators
LeadingSeparators(path) ==
    Cardinality({k \in 1..Len(path) : \A j \in 1..k : path[j] = "/"})
StrippedPath(path) == SubSeq(path, LeadingSeparators(path) + 1, Len(path))

IsRedirect(r) == r.response.status = 302 \/ r.response.location # <<>>

----------------------------------------------------------------------------
(* C1: a GET or HEAD request without an 'imei' query parameter is answered
   403 whatever its path and whatever the whitelist holds, and no URL is
   signed for it. *)
C1_MissingImeiForbidden ==
    (Handled /\ NoImeiParam(last[1].request)) =>
        /\ last[1].response.status = 403
        /\ last[1].response.location = <<>>
        /\ last[1].calls = <<>>

\* a request for the whitelist object itself, without identifier, while the
\* whitelist is not empty, was answered 403
C1_Witness ==
    /\ Handled
    /\ NoImeiParam(last[1].request)
    /\ StrippedPath(last[1].request.path) = whitelist_object_name
    /\ last[1].seen # {}
    /\ last[1].response.status = 403

(* C2: a request whose identifier is present but not in the whitelist
   current when it is handled is answered 401 and no URL is signed,
   whatever the path; so an identifier that a refresh removed is answered
   401 afterwards. *)
C2_UnknownImeiUnauthorized ==
    Handled =>
        \A id \in PresentedImei(last[1].request) :
            id \notin imei_whitelist =>
                /\ last[1].response.status = 401
                /\ last[1].response.location = <<>>
                /\ last[1].calls = <<>>

\* an identifier that the latest refresh removed from the whitelist is
\* answered 401 on the whitelist object's path
C2_Witness ==
    /\ Handled
    /\ refresh_pc = "scheduled"
    /\ \E id \in PresentedImei(last[1].request) :
          id \in attempt_before /\ id \notin imei_whitelist
    /\ StrippedPath(last[1].request.path) = whitelist_object_name
    /\ last[1].response.status = 401

(* C3: no redirect ever carries a signed URL whose object key is the
   whitelist object's name, and no URL is ever signed for that key. *)
C3_WhitelistNeverRedirected ==
    last # <<>> =>
        /\ \A i \in DOMAIN last[1].response.location :
              last[1].response.location[i].api_args.Key # whitelist_object_name
        /\ \A i \in DOMAIN last[1].calls :
              last[1].calls[i].object_name # whitelist_object_name

\* a redirect was issued for a key that contains the whitelist name
C3_Witness ==
    /\ Handled
    /\ last[1].response.status = 302
    /\ Len(last[1].response.location) = 1
    /\ last[1].response.location[1].api_args.Key = whitelist_object_name \o <<"/">>

(* C4 as stated: every request whose stripped path is the whitelist object's
   name is answered 403, whatever identifier it carries. *)
C4_Original ==
    (Handled /\ StrippedPath(last[1].request.path) = whitelist_object_name) =>
        last[1].response.status = 403

(* C4 amended: a request whose stripped path is the whitelist object's name
   is never redirected; it is answered 403 when its identifier is missing or
   is in the whitelist, and 401 when its identifier is present but not in
   the whitelist. *)
C4_WhitelistPathRejected ==
    (Handled /\ StrippedPath(last[1].request.path) = whitelist_object_name) =>
        /\ ~ IsRedirect(last[1])
        /\ last[1].calls = <<>>
        /\ last[1].response.status =
              IF PresentedImei(last[1].request) \subseteq imei_whitelist
              THEN 403 ELSE 401

\* an authorized identifier asked for the whitelist object behind two
\* separators and was answered 403
C4_Witness ==
    /\ Handled
    /\ last[1].request.path = <<"/", "/">> \o whitelist_object_name
    /\ PresentedImei(last[1].request) # {}
    /\ PresentedImei(last[1].request) \subseteq imei_whitelist
    /\ last[1].response.status = 403

\* the request of the latest step is authorized and not for the whitelist
AuthorizedObjectRequest ==
    /\ Handled
    /\ PresentedImei(last[1].request) # {}
    /\ PresentedImei(last[1].request) \subseteq imei_whitelist
    /\ StrippedPath(last[1].request.path) # whitelist_object_name

\* the URL signed for the request: this bucket, the stripped path, the
\* request's method, the configured expiry, nothing else
ExpectedURL(request) ==
    [api_method |-> "get_object",
     api_args |-> [Bucket |-> bucket_name, Key |-> StrippedPath(request.path)],
     ExpiresIn |-> expiry_time,
     HttpMethod |-> request.method]

ExpectedCall(request) ==
    [bucket |-> bucket_name, object_name |-> StrippedPath(request.path),
     request_method |-> request.method, expires_in |-> expiry_time,
     api_kwargs |-> NoKwargs]

(* C5 as stated: every authorized GET or HEAD request for another object
   than the whitelist is answered with a 302 redirect to the signed URL. *)
C5_Original ==
    AuthorizedObjectRequest =>
        /\ last[1].response.status = 302
        /\ last[1].response.location = <<ExpectedURL(last[1].request)>>

(* C5 amended: for every authorized GET or HEAD request for another object
   than the whitelist, handle_request calls make_object_url once, with the
   configured bucket, the stripped path as key, the request's method, the
   configured expiry and no extra parameters; when the call returns a URL
   the answer is a 302 redirect to that URL, and when it raises there is no
   redirect and the request ends in an error. *)
C5_AuthorizedRedirect ==
    AuthorizedObjectRequest =>
        /\ last[1].calls = <<ExpectedCall(last[1].request)>>
        /\ \/ /\ last[1].raised = ""
              /\ last[1].response.status = 302
              /\ last[1].response.location = <<ExpectedURL(last[1].request)>>
           \/ /\ last[1].raised # ""
              /\ last[1].response.status = 500
              /\ last[1].response.location = <<>>

\* a HEAD request of an authorized identifier was redirected
C5_Witness ==
    /\ AuthorizedObjectRequest
    /\ last[1].request.method = "HEAD"
    /\ last[1].response.status = 302
    /\ last[1].response.location[1].HttpMethod = "HEAD"

----------------------------------------------------------------------------
\* the latest step finished a load_whitelist attempt
AttemptFinished == lastAttempt # <<>>
AttemptFailed == AttemptFinished /\ lastAttempt[1].why # "ok"
AttemptSucceeded == AttemptFinished /\ lastAttempt[1].why = "ok"

(* C6: when a load_whitelist attempt fails (signing error, network error,
   malformed JSON, missing 'whitelist' key, an entry without 'imei'), the
   whitelist after the attempt is the whitelist before it: neither the
   empty set nor the identifiers parsed before the failure replace it. *)
C6_FailedAttemptKeepsWhitelist ==
    AttemptFailed => imei_whitelist = lastAttempt[1].before

\* an attempt failed on a document whose first entry is a new identifier and
\* whose second entry has no 'imei', while the whitelist was not empty
C6_Witness ==
    /\ AttemptFailed
    /\ lastAttempt[1].why = "KeyError_imei"
    /\ lastAttempt[1].before # {}
    /\ LET whitelist == lastAttempt[1].body[1].data.whitelist IN
          /\ Len(whitelist) = 2
          /\ "imei" \in DOMAIN whitelist[1]
          /\ whitelist[1].imei \notin lastAttempt[1].before
          /\ "imei" \notin DOMAIN whitelist[2]

(* C7: an attempt whose fetch returned a non-2xx response is a failure and
   leaves the whitelist untouched, whatever the body of the response. *)
C7_Non2xxIsFailure ==
    (AttemptFinished /\ lastAttempt[1].status # 0
                     /\ lastAttempt[1].status \notin 200..299) =>
        /\ lastAttempt[1].why # "ok"
        /\ imei_whitelist = lastAttempt[1].before

(* C8: after an attempt that succeeded on document D the whitelist is
   exactly the set of the 'imei' values of D's entries: nothing of the
   previous whitelist that D lacks stays, nothing of D is missing. *)
C8_SuccessReplacesWhitelist ==
    AttemptSucceeded =>
        LET D == lastAttempt[1].body[1].data.whitelist IN
        \A id \in Imeis :
            id \in imei_whitelist <=> \E i \in DOMAIN D : D[i].imei = id

\* an attempt succeeded on a document that lacks an identifier of the
\* previous whitelist and brings a new one
C8_Witness ==
    /\ AttemptSucceeded
    /\ LET D == lastAttempt[1].body[1].data.whitelist IN
          /\ \E id \in lastAttempt[1].before :
                \A i \in DOMAIN D : D[i].imei # id
          /\ \E i \in DOMAIN D : D[i].imei \notin lastAttempt[1].before

(* C9: whatever the interleaving of requests with the suspended refresh
   attempts, the whitelist a request is decided against is the empty set
   when no document has been parsed yet, and otherwise the complete
   identifier set of the last document parsed in full: never a part of a
   document, never a mix of two documents. *)
C9_RequestSeesWholeSnapshot ==
    Handled =>
        last[1].seen = IF last[1].good = <<>> THEN {} ELSE last[1].good[1]

\* a request was decided against a whitelist of two identifiers while an
\* attempt was suspended reading a body
C9_Witness ==
    /\ Handled
    /\ refresh_pc = "reading_json"
    /\ Cardinality(last[1].seen) = 2
    /\ last[1].response.status = 302

(* C10: every attempt that finishes, failed or not, schedules the next one
   whitelist_refresh_period later, an attempt starts only when that delay
   has run out, and, every fetch returning or failing, attempts finish
   again and again: no run of failures ends the refresh loop. *)
C10_RefreshLoopNeverEnds ==
    /\ [][lastAttempt' # <<>> =>
            (refresh_pc' = "scheduled" /\ timer' = whitelist_refresh_period)]_vars
    /\ [][(refresh_pc = "scheduled" /\
            (refresh_pc' # "scheduled" \/ lastAttempt' # <<>>)) => timer = 0]_vars
    /\ []<>(lastAttempt # <<>>)

\* an attempt failed right after an earlier failed attempt's delay ran out
C10_Witness ==
    /\ AttemptFailed
    /\ lastAttempt[1].why = "S3Error"
    /\ good = <<>>
    /\ mainpc = "serving"
    /\ refresh_pc = "scheduled"
    /\ timer = whitelist_refresh_period

----------------------------------------------------------------------------
FirstAttemptFailed == AttemptFailed /\ mainpc = "loaded"

(* C11: no request is handled, and the listener is not created, before the
   first load_whitelist attempt has finished; when that first attempt fails
   the whitelist is empty and the gateway goes on to serve requests. *)
C11_ServesAfterFirstAttempt ==
    /\ [](last # <<>> => first_done)
    /\ [](mainpc \in {"creating_server", "serving"} => first_done)
    /\ [](FirstAttemptFailed => imei_whitelist = {})
    /\ (FirstAttemptFailed ~> mainpc = "serving")

\* a request was handled after the first attempt had failed and before any
\* document was parsed
C11_Witness ==
    /\ Handled
    /\ first_done
    /\ good = <<>>
    /\ imei_whitelist = {}
    /\ refresh_pc = "scheduled"
    /\ timer = 0

(* C12: as long as no refresh has succeeded, whatever the number of failed
   attempts, the whitelist is empty, every request that carries an 'imei'
   is answered 401 and no request is answered with a redirect. *)
C12_FailClosed ==
    good = <<>> =>
        /\ imei_whitelist = {}
        /\ Handled =>
              /\ PresentedImei(last[1].request) # {} =>
                    last[1].response.status = 401
              /\ ~ IsRedirect(last[1])
              /\ last[1].calls = <<>>

\* a request with an identifier was answered 401 while a later attempt than
\* the first one was running and no attempt had succeeded
C12_Witness ==
    /\ Handled
    /\ good = <<>>
    /\ refresh_pc = "reading_json"
    /\ PresentedImei(last[1].request) # {}
    /\ StrippedPath(last[1].request.path) # whitelist_object_name
    /\ last[1].response.status = 401

(* C13: make_object_url maps GET and HEAD to get_object and PUT and POST to
   put_object, with the request method as the URL's HTTP method; for any
   other method it fails with an unsupported-method error before any call to
   the blob store. *)
C13_MethodMapping ==
    issued # <<>> =>
        LET c == issued[1].call
            r == issued[1].result
        IN /\ (c.request_method \in {"GET", "HEAD"} /\ r.ok) =>
                 /\ r.url[1].api_method = "get_object"
                 /\ r.url[1].HttpMethod = c.request_method
           /\ (c.request_method \in {"PUT", "POST"} /\ r.ok) =>
                 /\ r.url[1].api_method = "put_object"
                 /\ r.url[1].HttpMethod = c.request_method
           /\ c.request_method \in {"GET", "HEAD", "PUT", "POST"} =>
                 r.s3calls = 1
           /\ c.request_method \notin {"GET", "HEAD", "PUT", "POST"} =>
                 /\ ~ r.ok
                 /\ r.error = "ValueError"
                 /\ r.s3calls = 0
                 /\ r.url = <<>>

\* a DELETE was refused although the blob store would have signed
C13_Witness ==
    /\ issued # <<>>
    /\ issued[1].call.request_method = "DELETE"
    /\ issued[1].result.error = "ValueError"

(* C14: for every successful make_object_url call, with any extra
   parameters, the signing request is for exactly the bucket and the key
   given as arguments, with the given method and the given expiry. *)
C14_ScopedToArguments ==
    (issued # <<>> /\ issued[1].result.ok) =>
        LET c == issued[1].call
            u == issued[1].result.url[1]
        IN /\ u.api_args.Bucket = c.bucket
           /\ u.api_args.Key = c.object_name
           /\ u.HttpMethod = c.request_method
           /\ u.ExpiresIn = c.expires_in


(* C15: every decision of handle_request is logged with method, path and
   status: for each response it returns (403, 401, 403 for the whitelist
   path, 302) there is a log record with that status, and for a 302 with
   the target URL. *)
C15_EveryDecisionLogged ==
    (Handled /\ last[1].raised = "") =>
        \E i \in DOMAIN last[1].log :
            /\ last[1].log[i].status = last[1].response.status
            /\ last[1].log[i].method = last[1].request.method
            /\ last[1].log[i].path_qs =
                  <<last[1].request.path, last[1].request.GET>>
            /\ last[1].log[i].url = last[1].response.location

\* the request of the latest step carries a whitelisted identifier
Authorized ==
    /\ Handled
    /\ PresentedImei(last[1].request) # {}
    /\ PresentedImei(last[1].request) \subseteq last[1].seen

(* C16 as stated: the object key is the path without its first separator
   only, and that key is the one compared with the whitelist name and the
   one signed. *)
C16_Original ==
    Authorized =>
        IF Tail(last[1].request.path) = whitelist_object_name
        THEN last[1].calls = <<>> /\ last[1].response.status = 403
        ELSE /\ Len(last[1].calls) = 1
             /\ last[1].calls[1].object_name = Tail(last[1].request.path)

(* C16 amended: the object key is the path without all of its leading
   separators (str.lstrip('/')) and otherwise unchanged; that one key is
   compared with the whitelist name and is the key of the signed URL. *)
C16_KeyIsStrippedPath ==
    Authorized =>
        IF StrippedPath(last[1].request.path) = whitelist_object_name
        THEN last[1].calls = <<>> /\ last[1].response.status = 403
        ELSE /\ Len(last[1].calls) = 1
             /\ last[1].calls[1].object_name =
                   StrippedPath(last[1].request.path)
             /\ \A i \in DOMAIN last[1].response.location :
                   last[1].response.location[i].api_args.Key =
                       StrippedPath(last[1].request.path)

\* a path of three separators was signed under the empty key, and not under
\* the two separators that remain after the first
C16_Witness ==
    /\ Authorized
    /\ last[1].request.path = <<"/", "/", "/">>
    /\ Len(last[1].calls) = 1
    /\ last[1].calls[1].object_name = <<>>

(* C17: the assertion of handle_request holds in every reachable state: the
   router hands only GET and HEAD requests to handle_request, so
   make_object_url is never called with a method it refuses. *)
C17_AssertionHolds ==
    /\ Handled => last[1].request.method \in {"GET", "HEAD"}
    /\ last # <<>> => last[1].raised \notin {"AssertionError", "ValueError"}
    /\ last # <<>> =>
          \A i \in DOMAIN last[1].calls :
              last[1].calls[i].request_method \in {"GET", "HEAD"}

\* a POST request was answered by the router, without handle_request
C17_Witness ==
    /\ last # <<>>
    /\ ~ last[1].handled
    /\ last[1].request.method = "POST"
    /\ last[1].response.status = 405

\* the latest step handled a request for which make_object_url was called
\* and the blob store raised
SigningFailed == Handled /\ last[1].calls # <<>> /\ ~ last[1].s3ok

(* C18: when signing fails for an authorized request, that request ends in
   a 5xx response without redirect; the step changes neither the whitelist
   nor the refresh task, and the pending refresh still runs. *)
C18_SigningFailureIsolated ==
    /\ [](SigningFailed =>
            /\ last[1].response.status \in 500..599
            /\ last[1].response.location = <<>>)
    /\ [][(last' # <<>> /\ last'[1].calls # <<>> /\ ~ last'[1].s3ok) =>
            UNCHANGED <<mainpc, imei_whitelist, refresh_pc, resp_status,
                        timer, callbacks>>]_vars
    /\ (SigningFailed ~> lastAttempt # <<>>)

\* signing failed for a request while the next refresh was pending
C18_Witness ==
    /\ SigningFailed
    /\ refresh_pc = "scheduled"
    /\ callbacks = 1
    /\ last[1].response.status = 500

(* C19: handle_request leaves the whitelist as it is on every path it takes
   (403, 401, 302, signing failure); the whitelist changes only in the step
   that ends a successful load_whitelist attempt, to the set built from the
   document. *)
C19_OnlyLoadWritesWhitelist ==
    /\ [][last' # <<>> => imei_whitelist' = imei_whitelist]_vars
    /\ [][imei_whitelist' # imei_whitelist =>
            /\ lastAttempt' # <<>>
            /\ lastAttempt'[1].why = "ok"
            /\ imei_whitelist' =
                  ImeisOf(lastAttempt'[1].body[1].data.whitelist)]_vars

\* a request ended in a signing failure while the whitelist held identifiers
C19_Witness ==
    /\ SigningFailed
    /\ last[1].raised = "S3Error"
    /\ imei_whitelist = last[1].seen
    /\ Cardinality(imei_whitelist) = 1

\* number of load_whitelist tasks that are running
InFlight == IF refresh_pc \in {"fetching", "reading_json"} THEN 1 ELSE 0

(* C20: once the first attempt has finished there is exactly one refresh,
   either running or scheduled; a callback is registered only by the step
   that ends an attempt, one at a time, so failures do not multiply the
   pending refreshes. *)
C20_OneRefreshPending ==
    /\ [](first_done => callbacks + InFlight = 1)
    /\ [](~ first_done => callbacks = 0)
    /\ [][callbacks' > callbacks =>
            (lastAttempt' # <<>> /\ callbacks' = callbacks + 1
             /\ refresh_pc' \notin {"fetching", "reading_json"})]_vars

\* after failures only, an attempt is running and no callback is pending
C20_Witness ==
    /\ first_done
    /\ good = <<>>
    /\ mainpc = "serving"
    /\ refresh_pc = "fetching"
    /\ callbacks = 0

====
